---- MODULE Spec2Model ----
(***************************************************************************)
(* Credential lifecycle of the Google Calendar integration.                *)
(*                                                                         *)
(* Three variants of the authenticate procedure exist in the repository:   *)
(*   "local"  : GoogleCalendarAPI._authenticate       (calendar_api.py)    *)
(*   "script" : authenticate_google_calendar    (get_calendar_events.py)   *)
(*   "lambda" : LambdaGoogleCalendarAPI._authenticate                      *)
(*                                   (lambda-package/lambda_calendar_api)  *)
(* Each invocation is a process that walks through the statements of its   *)
(* variant; every statement that touches the token file, the remote        *)
(* parameter or the provider is one step, so that other invocations and    *)
(* the clock can interleave.                                               *)
(*                                                                         *)
(* A stored token is a record [kind, tok, rt, exp, sc]:                    *)
(*   kind : "absent" (no file / no parameter), "malformed" (does not       *)
(*          parse as an authorized-user record) or "rec"                   *)
(*   tok  : access token, 0 = null                                         *)
(*   rt   : refresh token, 0 = null/empty                                  *)
(*   exp  : expiry instant (the record is expired once now >= exp)         *)
(*   sc   : the "scopes" field of the stored JSON                          *)
(***************************************************************************)
EXTENDS Integers, Sequences, FiniteSets, TLC

\* ------------------------------------------------------------------ bounds
MaxTime == 1        \* the clock runs 0..MaxTime
MaxCalls == 2       \* authenticate calls made in succession by one process
TokenTTL == 2       \* lifetime of a token issued by the provider

Procs == {1, 2}
MainProcs == {1}

\* ------------------------------------------------------- program constants
SCOPES == {"calendar.readonly"}

Variants == {"local", "script", "lambda"}

Absent == [kind |-> "absent", tok |-> 0, rt |-> 0, exp |-> 0, sc |-> {}]
Malformed == [kind |-> "malformed", tok |-> 0, rt |-> 0, exp |-> 0, sc |-> {}]

\* creds = None
NoCreds == Absent

InitScopes == {{}, SCOPES}

\* expired from the start, expiring at the first tick, never expiring
InitExpiries == {0, 1, MaxTime + 1}

InitRecords ==
    [kind : {"rec"}, tok : {0, 1}, rt : {0, 1}, exp : InitExpiries, sc : InitScopes]

InitContents == {Absent, Malformed} \cup InitRecords

VARIABLES
    now,        \* wall clock
    issued,     \* number of access tokens the provider has issued so far
    remote,     \* value of the remote parameter (shared by all invocations)
    file,       \* file[p]: content of the token file on p's host
    credFile,   \* credFile[p]: the client-secrets file exists on p's host
    psName,     \* psName[p]: parameter_store_token_name is set
    ctx,        \* ctx[p]: variant of authenticate the process runs
    pc,         \* pc[p]: position of the process
    creds,      \* creds[p]: the local variable creds
    raw,        \* raw[p]: the stored record creds was parsed from
    ops,        \* ops[p]: I/O operations of the current call, in order
    err,        \* err[p]: exception that ended the current call
    callNo,     \* callNo[p]: number of calls started
    prev,       \* prev[p]: outcome of the previous call
    snap,       \* snap[p]: the stores as the current call found them, the
                \*          instant at which it evaluated creds.valid, and
                \*          whether another invocation wrote the remote
                \*          parameter since the call began
    env,        \* env[p]: GOOGLE_CREDENTIALS_JSON and GOOGLE_TOKEN_JSON of
                \*          the function's environment
    hnd,        \* hnd[p]: lambda_handler: its position, the event it was
                \*          given, what it has done and the status returned
    cz,         \* categorize_events: its argument, the position of its
                \*          loop and the category lists built so far
    rd          \* another process reading the token file of process 1:
                \*          the number of its reads and what the last one saw

vars == <<now, issued, remote, file, credFile, psName, ctx, pc, creds, raw,
          ops, err, callNo, prev, snap, env, hnd, cz, rd>>

\* ------------------------------------------------------ library operators

\* Credentials.expired
Expired(c, t) == t >= c.exp

\* Credentials.valid
Valid(c, t) == c.tok # 0 /\ ~Expired(c, t)

\* Credentials.from_authorized_user_info(json.loads(text), SCOPES):
\* raises on text that is not an authorized-user record; the scopes of the
\* resulting credentials are the SCOPES argument, not the stored ones.
FromAuthorizedUserInfo(content) ==
    IF content.kind = "rec"
    THEN [kind |-> "rec", tok |-> content.tok, rt |-> content.rt,
          exp |-> content.exp, sc |-> SCOPES]
    ELSE NoCreds

\* Variant: the refresh token is left out of the written record.
ToJsonNoRefresh(c) ==
    [kind |-> "rec", tok |-> c.tok, rt |-> 0, exp |-> c.exp, sc |-> c.sc]

\* creds.to_json()
ToJson(c) ==
    [kind |-> "rec", tok |-> c.tok, rt |-> c.rt, exp |-> c.exp, sc |-> c.sc]

\* creds.refresh(Request()) on success: new access token and expiry, the
\* refresh token is kept.
Refreshed(c, newTok, t) ==
    [c EXCEPT !.tok = newTok, !.exp = t + TokenTTL]

\* flow.run_local_server(port=0) on success
Granted(newTok, t) ==
    [kind |-> "rec", tok |-> newTok, rt |-> newTok, exp |-> t + TokenTTL,
     sc |-> SCOPES]

\* -------------------------------------------------------------- helpers
Has(s, x) == \E i \in 1..Len(s) : s[i] = x

RECURSIVE Count(_, _)
Count(s, X) ==
    IF s = <<>> THEN 0
    ELSE (IF Head(s) \in X THEN 1 ELSE 0) + Count(Tail(s), X)

Idle == {"idle", "done", "failed"}

PrevNone == [res |-> "none", creds |-> NoCreds, ops |-> <<>>]

\* lambda_handler has not been entered.
HndIdle ==
    [pc |-> "idle", days |-> "ok", wroteCreds |-> FALSE, wroteToken |-> FALSE,
     auth |-> FALSE, status |-> 0]

\* Neither environment variable is set.
EnvNone == [creds |-> "unset", token |-> Absent]

\* The seven keys of the `categories` dictionary, in insertion order.
Categories ==
    <<"work", "meeting", "personal", "travel", "social", "health", "other">>

CategorySet == {Categories[i] : i \in 1..Len(Categories)}

\* categorize_events has not been called.
CzIdle ==
    [pc |-> "idle", events |-> <<>>, i |-> 1,
     cats |-> [c \in CategorySet |-> <<>>]]

\* Nobody has read the token file.
RdIdle == [n |-> 0, seen |-> Absent]

\* ------------------------------------------------------------------ Init
Init ==
    /\ now = 0
    /\ issued = 1
    /\ \E v \in Variants, f \in InitContents, r \in InitContents,
          ps \in BOOLEAN, cf \in BOOLEAN :
          /\ v = "lambda" => cf = TRUE
          /\ v # "lambda" => ps = FALSE
          /\ ~ps => r = Absent
          /\ ctx = [p \in Procs |-> v]
          /\ file = [p \in Procs |-> IF p \in MainProcs THEN f ELSE Absent]
          /\ remote = r
          /\ psName = [p \in Procs |-> ps]
          /\ credFile = [p \in Procs |-> cf]
    /\ pc = [p \in Procs |-> "idle"]
    /\ creds = [p \in Procs |-> NoCreds]
    /\ raw = [p \in Procs |-> Absent]
    /\ ops = [p \in Procs |-> <<>>]
    /\ err = [p \in Procs |-> "none"]
    /\ callNo = [p \in Procs |-> 0]
    /\ prev = [p \in Procs |-> PrevNone]
    /\ snap = [p \in Procs |-> [file |-> Absent, remote |-> Absent, t |-> -1, fw |-> FALSE]]
    /\ env = [p \in Procs |-> EnvNone]
    /\ hnd = [p \in Procs |-> HndIdle]
    /\ cz = CzIdle
    /\ rd = RdIdle

\* --------------------------------------------------------------- actions

\* Variant: the token file is looked at first.
FirstStepFileFirst(v) == "load_file"

\* The first statement after `creds = None`: the serverless variant asks
\* the parameter store (line 99), the local variants look at the token file.
FirstStep(v) == IF v = "lambda" THEN "load_remote" ELSE "load_file"

\* A new call of authenticate: `creds = None`.
Begin(p) ==
    /\ pc[p] \in Idle
    /\ callNo[p] < MaxCalls
    /\ callNo' = [callNo EXCEPT ![p] = @ + 1]
    /\ prev' = [prev EXCEPT ![p] =
                   IF pc[p] = "idle" THEN PrevNone
                   ELSE [res |-> pc[p], creds |-> creds[p], ops |-> ops[p]]]
    /\ pc' = [pc EXCEPT ![p] = FirstStep(ctx[p])]
    /\ creds' = [creds EXCEPT ![p] = NoCreds]
    /\ raw' = [raw EXCEPT ![p] = Absent]
    /\ ops' = [ops EXCEPT ![p] = <<>>]
    /\ err' = [err EXCEPT ![p] = "none"]
    /\ snap' = [snap EXCEPT ![p] = [file |-> file[p], remote |-> remote, t |-> -1, fw |-> FALSE]]
    /\ UNCHANGED <<now, issued, remote, file, credFile, psName, ctx, env, hnd,
                   cz, rd>>

\* Statement-level update of one process; everything else is left alone.
Step(p, newPc, newCreds, newRaw, newOps, newErr) ==
    /\ pc' = [pc EXCEPT ![p] = newPc]
    /\ creds' = [creds EXCEPT ![p] = newCreds]
    /\ raw' = [raw EXCEPT ![p] = newRaw]
    /\ ops' = [ops EXCEPT ![p] = ops[p] \o newOps]
    /\ err' = [err EXCEPT ![p] = newErr]
    /\ snap' = [snap EXCEPT ![p].t = IF pc[p] = "classify" THEN now ELSE @]
    /\ UNCHANGED <<now, credFile, psName, ctx, callNo, prev, env, hnd,
                   cz, rd>>

\* ---- LambdaGoogleCalendarAPI

\* _get_token_from_parameter_store: None when no name is configured, when
\* the parameter does not exist and when get_parameter raises.
GetTokenFromParameterStore(ps, outcome, r) ==
    IF ps /\ outcome = "ok" THEN r ELSE Absent

\* token_json = self._get_token_from_parameter_store(); parse it if truthy.
LambdaLoadRemote(p) ==
    /\ pc[p] = "load_remote"
    /\ \E outcome \in (IF psName[p] THEN {"ok", "err"} ELSE {"ok"}) :
          LET tokenJson == GetTokenFromParameterStore(psName[p], outcome, remote)
              c == FromAuthorizedUserInfo(tokenJson)
          IN  Step(p, "load_file", c,
                   IF c.kind = "rec" THEN tokenJson ELSE Absent,
                   IF psName[p] THEN <<"ps_get_" \o outcome>> ELSE <<>>,
                   "none")
    /\ UNCHANGED <<issued, remote, file>>

\* Variant: `if creds and os.path.exists(self.token_path)`.
LambdaReadsFileInverted(c, f) == c.kind = "rec" /\ f.kind # "absent"

\* Variant: `if os.path.exists(self.token_path)`: the file, when there is
\* one, replaces what the remote parameter gave.
LambdaReadsFileAlways(c, f) == f.kind # "absent"

\* if not creds and os.path.exists(self.token_path): try to parse the file
LambdaReadsFile(c, f) == c.kind # "rec" /\ f.kind # "absent"

LambdaLoadFile(p) ==
    /\ pc[p] = "load_file"
    /\ ctx[p] = "lambda"
    /\ IF LambdaReadsFile(creds[p], file[p])
       THEN LET c == FromAuthorizedUserInfo(file[p])
            IN  Step(p, "classify", c,
                     IF c.kind = "rec" THEN file[p] ELSE Absent,
                     <<"file_read">>, "none")
       ELSE Step(p, "classify", creds[p], raw[p], <<>>, "none")
    /\ UNCHANGED <<issued, remote, file>>

\* Variant: the ladder of the local class copied over, interactive flow kept.
LambdaBranchGrant(c, t) ==
    IF c.kind = "rec" /\ ~Valid(c, t)
    THEN IF Expired(c, t) /\ c.rt # 0 THEN "refresh" ELSE "grant"
    ELSE IF c.kind # "rec" THEN "grant" ELSE "done"

\* Variant: the save of lines 121-127 is dedented out of the refresh branch,
\* so it also runs for credentials that were valid as loaded.
LambdaBranchSaveAlways(c, t) ==
    IF c.kind = "rec" /\ ~Valid(c, t)
    THEN IF Expired(c, t) /\ c.rt # 0 THEN "refresh" ELSE "failed"
    ELSE IF c.kind # "rec" THEN "failed" ELSE "save_file"

\* Variant: `creds.expired or creds.refresh_token`.
LambdaBranchOr(c, t) ==
    IF c.kind = "rec" /\ ~Valid(c, t)
    THEN IF Expired(c, t) \/ c.rt # 0 THEN "refresh" ELSE "failed"
    ELSE IF c.kind # "rec" THEN "failed" ELSE "done"

\* Variant: the final `if not creds: raise` is missing.
LambdaBranchNoCredsCheck(c, t) ==
    IF c.kind = "rec" /\ ~Valid(c, t)
    THEN IF Expired(c, t) /\ c.rt # 0 THEN "refresh" ELSE "failed"
    ELSE "done"

\* The if/else ladder of lines 117-140: which statement comes next.
LambdaBranch(c, t) ==
    IF c.kind = "rec" /\ ~Valid(c, t)
    THEN IF Expired(c, t) /\ c.rt # 0 THEN "refresh" ELSE "failed"
    ELSE IF c.kind # "rec" THEN "failed" ELSE "done"

LambdaClassify(p) ==
    /\ pc[p] = "classify"
    /\ ctx[p] = "lambda"
    /\ LET nxt == LambdaBranch(creds[p], now)
       IN  Step(p, nxt, creds[p], raw[p], <<>>,
                IF nxt = "failed" THEN "ValueError" ELSE "none")
    /\ UNCHANGED <<issued, remote, file>>

\* Variant: the file write is wrapped in try/except and the remote save
\* runs whatever became of the file.
AfterSaveFileSwallowed(outcome) == "save_remote"

\* Lines 122-127: the with-statement is not guarded, so an IOError leaves
\* _authenticate before the remote save is reached.
AfterSaveFile(outcome) == IF outcome = "ok" THEN "save_remote" ELSE "failed"

\* with open(self.token_path, 'w') as token_file: token_file.write(token_json)
\* open() may raise (file untouched), write() may raise after open()
\* truncated the file.
LambdaSaveFile(p) ==
    /\ pc[p] = "save_file"
    /\ ctx[p] = "lambda"
    /\ \E outcome \in {"ok", "err", "partial"} :
          /\ file' = [file EXCEPT ![p] =
                         CASE outcome = "ok" -> ToJson(creds[p])
                           [] outcome = "err" -> @
                           [] outcome = "partial" -> Malformed]
          /\ Step(p, AfterSaveFile(outcome),
                  creds[p], raw[p], <<"file_write_" \o outcome>>,
                  IF outcome = "ok" THEN "none" ELSE "IOError")
    /\ UNCHANGED <<issued, remote>>

\* _save_token_to_parameter_store: False without a name, True after
\* put_parameter(Overwrite=True), False when put_parameter raises (the
\* service cannot be reached, or rejects the write because of a concurrent
\* update of the parameter). The caller ignores the result.
PutOutcomes(ps, fw) ==
    IF ps THEN {"ok", "fail"} \cup (IF fw THEN {"conflict"} ELSE {}) ELSE {"fail"}

\* Variant: the caller raises when the save reports False.
AfterSaveRemoteChecked(ps, outcome) ==
    IF ps /\ outcome # "ok" THEN "failed" ELSE "done"

\* Line 127 discards the result of the save, line 137 finds creds set.
AfterSaveRemote(ps, outcome) == "done"

\* Variant: put_parameter without Overwrite=True, which never replaces a
\* parameter that exists.
PutParameterNoOverwrite(r, new, outcome) ==
    IF outcome = "ok" /\ r.kind = "absent" THEN new ELSE r

\* ssm.put_parameter(Name=..., Value=token_json, Overwrite=True): the
\* parameter after the call.
PutParameter(r, new, outcome) == IF outcome = "ok" THEN new ELSE r

LambdaSaveRemote(p) ==
    /\ pc[p] = "save_remote"
    /\ \E outcome \in PutOutcomes(psName[p], snap[p].fw) :
          /\ remote' = IF psName[p]
                       THEN PutParameter(remote, ToJson(creds[p]), outcome)
                       ELSE remote
          /\ LET nxt == AfterSaveRemote(psName[p], outcome)
             IN  Step(p, nxt, creds[p], raw[p],
                      IF psName[p] THEN <<"ps_put_" \o outcome>> ELSE <<>>,
                      IF nxt = "failed" THEN "PersistenceError" ELSE "none")
    /\ UNCHANGED <<issued, file>>

\* ---- GoogleCalendarAPI and authenticate_google_calendar

\* if os.path.exists(token_path): creds = from_authorized_user_info(...)
\* GoogleCalendarAPI wraps the parse in try/except, the script does not.
LocalLoadFile(p) ==
    /\ pc[p] = "load_file"
    /\ ctx[p] # "lambda"
    /\ IF file[p].kind = "absent"
       THEN Step(p, "classify", NoCreds, Absent, <<>>, "none")
       ELSE LET c == FromAuthorizedUserInfo(file[p])
            IN  IF c.kind # "rec" /\ ctx[p] = "script"
                THEN Step(p, "failed", NoCreds, Absent, <<"file_read">>, "ValueError")
                ELSE Step(p, "classify", c,
                          IF c.kind = "rec" THEN file[p] ELSE Absent,
                          <<"file_read">>, "none")
    /\ UNCHANGED <<issued, remote, file>>

\* Variant: `creds.expired and creds.token` (the wrong field is tested).
LocalBranchTokenCheck(c, t, cf) ==
    IF c.kind # "rec" \/ ~Valid(c, t)
    THEN IF c.kind = "rec" /\ Expired(c, t) /\ c.tok # 0 THEN "refresh"
         ELSE IF ~cf THEN "failed" ELSE "grant"
    ELSE "done"

\* Variant: the save of lines 71-73 is dedented out of the `if` block, so
\* it also runs for credentials that were valid as loaded.
LocalBranchSaveAlways(c, t, cf) ==
    IF c.kind # "rec" \/ ~Valid(c, t)
    THEN IF c.kind = "rec" /\ Expired(c, t) /\ c.rt # 0 THEN "refresh"
         ELSE IF ~cf THEN "failed" ELSE "grant"
    ELSE "save_file"

\* Variant: the os.path.exists test of the client-secrets file is missing.
LocalBranchNoCredFileCheck(c, t, cf) ==
    IF c.kind # "rec" \/ ~Valid(c, t)
    THEN IF c.kind = "rec" /\ Expired(c, t) /\ c.rt # 0 THEN "refresh"
         ELSE "grant"
    ELSE "done"

\* The if/else ladder of calendar_api.py lines 56-69.
LocalBranch(c, t, cf) ==
    IF c.kind # "rec" \/ ~Valid(c, t)
    THEN IF c.kind = "rec" /\ Expired(c, t) /\ c.rt # 0 THEN "refresh"
         ELSE IF ~cf THEN "failed" ELSE "grant"
    ELSE "done"

LocalClassify(p) ==
    /\ pc[p] = "classify"
    /\ ctx[p] # "lambda"
    /\ LET nxt == LocalBranch(creds[p], now, credFile[p])
       IN  Step(p, nxt, creds[p], raw[p], <<>>,
                IF nxt = "failed" THEN "FileNotFoundError" ELSE "none")
    /\ UNCHANGED <<issued, remote, file>>

\* Variant: the granted credentials are used but never written.
AfterGrantNoSave(outcome) ==
    IF outcome = "ok" THEN "done" ELSE "failed"

\* After the flow: the save of lines 71-73, or the flow's exception.
AfterGrant(outcome) ==
    IF outcome = "ok" THEN "save_file" ELSE "failed"

\* flow.run_local_server(port=0); an exception of the flow is not caught.
Grant(p) ==
    /\ pc[p] = "grant"
    /\ \E outcome \in {"ok", "fail"} :
          /\ issued' = IF outcome = "ok" THEN issued + 1 ELSE issued
          /\ Step(p, AfterGrant(outcome),
                  IF outcome = "ok" THEN Granted(issued + 1, now) ELSE creds[p],
                  raw[p], <<"grant_" \o outcome>>,
                  IF outcome = "ok" THEN "none" ELSE "GrantError")
    /\ UNCHANGED <<remote, file>>

\* with open(self.token_path, 'w') as token: token.write(creds.to_json())
LocalSaveFile(p) ==
    /\ pc[p] = "save_file"
    /\ ctx[p] # "lambda"
    /\ \E outcome \in {"ok", "err", "partial"} :
          /\ file' = [file EXCEPT ![p] =
                         CASE outcome = "ok" -> ToJson(creds[p])
                           [] outcome = "err" -> @
                           [] outcome = "partial" -> Malformed]
          /\ Step(p, IF outcome = "ok" THEN "done" ELSE "failed",
                  creds[p], raw[p], <<"file_write_" \o outcome>>,
                  IF outcome = "ok" THEN "none" ELSE "IOError")
    /\ UNCHANGED <<issued, remote>>

\* ---- all variants

\* Variant: the serverless variant writes the parameter only, not the file.
AfterRefreshRemoteOnly(v, outcome) ==
    IF outcome = "ok"
    THEN (IF v = "lambda" THEN "save_remote" ELSE "save_file")
    ELSE "failed"

\* Variant: the RefreshError is swallowed (try/except: pass) and the save
\* runs all the same.
AfterRefreshSaveOnFailure(v, outcome) == "save_file"

\* Variant: the refreshed credentials are used but the save is skipped.
AfterRefreshNoSave(v, outcome) ==
    IF outcome = "ok" THEN "done" ELSE "failed"

\* Variant: a token endpoint that cannot be reached never answers, and the
\* request has no timeout.
AfterRefreshBlocks(v, outcome) ==
    IF outcome = "ok" THEN "save_file"
    ELSE IF outcome = "neterr" THEN "refresh_wait" ELSE "failed"

\* Where the procedure continues after creds.refresh(Request()) returned or
\* raised: no variant catches the RefreshError.
AfterRefresh(v, outcome) ==
    IF outcome = "ok" THEN "save_file" ELSE "failed"

\* creds.refresh(Request()): the provider answers with a new token, rejects
\* the refresh token (invalid_grant) or cannot be reached.
Refresh(p) ==
    /\ pc[p] = "refresh"
    /\ \E outcome \in {"ok", "invalid_grant", "neterr"} :
          /\ issued' = IF outcome = "ok" THEN issued + 1 ELSE issued
          /\ Step(p, AfterRefresh(ctx[p], outcome),
                  IF outcome = "ok" THEN Refreshed(creds[p], issued + 1, now)
                  ELSE creds[p],
                  raw[p], <<"refresh_" \o outcome>>,
                  IF outcome = "ok" THEN "none" ELSE "RefreshError")
    /\ UNCHANGED <<remote, file>>

\* ---- environment

\* A call is in progress (anything that happens between two calls is seen
\* by the program exactly as if it happened right after the next call began).
Running(p) == pc[p] \notin Idle

\* Another invocation, having refreshed, writes its record to the remote
\* parameter while a call is in progress (at most once per call).
ForeignWrite ==
    /\ \E p \in MainProcs : Running(p) /\ psName[p] /\ ~snap[p].fw
    /\ issued' = issued + 1
    /\ remote' = [kind |-> "rec", tok |-> issued + 1, rt |-> 1,
                  exp |-> now + TokenTTL, sc |-> SCOPES]
    /\ snap' = [p \in Procs |-> [snap[p] EXCEPT !.fw = Running(p)]]
    /\ UNCHANGED <<now, file, credFile, psName, ctx, pc, creds, raw, ops, err,
                   callNo, prev, env, hnd, cz, rd>>

\* Time passes.
Tick ==
    /\ now < MaxTime
    /\ \E p \in MainProcs : Running(p)
    /\ now' = now + 1
    /\ UNCHANGED <<issued, remote, file, credFile, psName, ctx, pc, creds, raw,
                   ops, err, callNo, prev, snap, env, hnd, cz, rd>>

\* ---- lambda_handler (lambda_function.py)

\* GOOGLE_TOKEN_JSON is set but is not base64 of UTF-8 text.
BadB64 == [kind |-> "bad64", tok |-> 0, rt |-> 0, exp |-> 0, sc |-> {}]

\* Values of GOOGLE_CREDENTIALS_JSON: not set, the empty string, text that
\* does not decode, the encoded client secrets.
CredsEnvs == {"unset", "empty", "bad", "ok"}

\* The event's query parameters: "ok" when the days parameter is missing
\* or an integer, "bad" when queryStringParameters is null or days is
\* not an integer.
DaysInputs == {"ok", "bad"}

\* Token records the deployment may hold in GOOGLE_TOKEN_JSON or in the
\* remote parameter.
HandlerRecords ==
    [kind : {"rec"}, tok : {1}, rt : {0, 1}, exp : InitExpiries, sc : {SCOPES}]

HandlerContents == {Absent, Malformed} \cup HandlerRecords

\* Cold start: /tmp is empty; the environment and the remote parameter
\* are whatever the deployment holds.
InitHandler ==
    /\ now = 0
    /\ issued = 1
    /\ \E r \in HandlerContents, ps \in BOOLEAN,
          ce \in CredsEnvs, te \in HandlerContents \cup {BadB64} :
          /\ ~ps => r = Absent
          /\ remote = r
          /\ psName = [p \in Procs |-> ps]
          /\ env = [p \in Procs |-> [creds |-> ce, token |-> te]]
    /\ ctx = [p \in Procs |-> "lambda"]
    /\ file = [p \in Procs |-> Absent]
    /\ credFile = [p \in Procs |-> FALSE]
    /\ pc = [p \in Procs |-> "idle"]
    /\ creds = [p \in Procs |-> NoCreds]
    /\ raw = [p \in Procs |-> Absent]
    /\ ops = [p \in Procs |-> <<>>]
    /\ err = [p \in Procs |-> "none"]
    /\ callNo = [p \in Procs |-> 0]
    /\ prev = [p \in Procs |-> PrevNone]
    /\ snap = [p \in Procs |-> [file |-> Absent, remote |-> Absent, t |-> -1, fw |-> FALSE]]
    /\ hnd = [p \in Procs |-> HndIdle]
    /\ cz = CzIdle
    /\ rd = RdIdle

\* The handler without its test of GOOGLE_CREDENTIALS_JSON: b64decode of
\* a missing value raises.
HandlerPreludeNoCredsTest(days, ce, te) ==
    IF days = "bad" THEN "parse_error"
    ELSE IF ce # "ok" THEN "decode_error"
    ELSE IF te = BadB64 THEN "token_decode_error"
    ELSE "authenticate"

\* How far the handler gets before constructing the API object: the days
\* parameter is parsed first, then the credentials variable is tested,
\* then decoded, then the token variable is decoded.
HandlerPrelude(days, ce, te) ==
    IF days = "bad" THEN "parse_error"
    ELSE IF ce \in {"unset", "empty"} THEN "no_credentials"
    ELSE IF ce = "bad" THEN "decode_error"
    ELSE IF te = BadB64 THEN "token_decode_error"
    ELSE "authenticate"

\* Status code of a handler that stops in its prelude.
HandlerStatus(o) == IF o = "no_credentials" THEN 400 ELSE 500

\* The exception that stops the prelude: int() and b64decode raise
\* ValueError (binascii.Error is a subclass), a null queryStringParameters
\* raises AttributeError.
PreludeException(o) ==
    CASE o = "parse_error" -> "AttributeError"
      [] o \in {"decode_error", "token_decode_error"} -> "ValueError"
      [] OTHER -> "none"

\* Variant: `except ValueError as e`.
HandlerCatchesValueError(e) == e = "ValueError"

\* Line 92, `except Exception as e`: every exception raised inside the
\* try block is caught.
HandlerCatches(e) == TRUE

\* Variant: the environment token is written only when /tmp/token.json
\* does not exist yet.
HandlerTokenFileKeep(te, f) ==
    IF f.kind # "absent" \/ te = Absent THEN f
    ELSE IF te = BadB64 THEN Malformed
    ELSE te

\* Lines 54-56: /tmp/token.json after `if token_json:` and its write: left
\* alone when GOOGLE_TOKEN_JSON is unset or empty, truncated and left empty
\* when the value does not decode (open() precedes b64decode), replaced by
\* the decoded value otherwise.
HandlerTokenFile(te, f) ==
    IF te = Absent THEN f
    ELSE IF te = BadB64 THEN Malformed
    ELSE te

\* lambda_handler from its entry to the construction of
\* LambdaGoogleCalendarAPI, whose __init__ calls _authenticate.
HandlerEntry(p) ==
    /\ hnd[p].pc \in {"idle", "returned", "raised"}
    /\ pc[p] \in Idle
    /\ callNo[p] < MaxCalls
    /\ \E days \in DaysInputs :
         LET o == HandlerPrelude(days, env[p].creds, env[p].token)
             wc == o \in {"token_decode_error", "authenticate"}
             wt == wc /\ env[p].token # Absent
             newFile == IF wc THEN HandlerTokenFile(env[p].token, file[p])
                        ELSE file[p]
             caught == HandlerCatches(PreludeException(o))
         IN  /\ credFile' = [credFile EXCEPT ![p] = @ \/ wc]
             /\ file' = [file EXCEPT ![p] = newFile]
             /\ hnd' = [hnd EXCEPT ![p] =
                   [pc |-> IF o = "authenticate" THEN "auth"
                           ELSE IF o = "no_credentials" \/ caught
                           THEN "returned" ELSE "raised",
                    days |-> days, wroteCreds |-> wc, wroteToken |-> wt,
                    auth |-> (o = "authenticate"),
                    status |-> IF o = "authenticate" THEN 0
                               ELSE IF o = "no_credentials" \/ caught
                               THEN HandlerStatus(o) ELSE 0]]
             /\ IF o = "authenticate"
                THEN /\ callNo' = [callNo EXCEPT ![p] = @ + 1]
                     /\ prev' = [prev EXCEPT ![p] =
                           IF pc[p] = "idle" THEN PrevNone
                           ELSE [res |-> pc[p], creds |-> creds[p],
                                 ops |-> ops[p]]]
                     /\ pc' = [pc EXCEPT ![p] = FirstStep(ctx[p])]
                     /\ creds' = [creds EXCEPT ![p] = NoCreds]
                     /\ raw' = [raw EXCEPT ![p] = Absent]
                     /\ ops' = [ops EXCEPT ![p] = <<>>]
                     /\ err' = [err EXCEPT ![p] = "none"]
                     /\ snap' = [snap EXCEPT ![p] =
                           [file |-> newFile, remote |-> remote,
                            t |-> -1, fw |-> FALSE]]
                ELSE UNCHANGED <<pc, creds, raw, ops, err, callNo, prev, snap>>
    /\ UNCHANGED <<now, issued, remote, psName, ctx, env, cz, rd>>

\* lambda_handler after the constructor: an exception of _authenticate is
\* caught by the handler's except clause; otherwise the events are fetched
\* and analysed, which succeeds or raises.
HandlerFinish(p) ==
    /\ hnd[p].pc = "auth"
    /\ pc[p] \in {"done", "failed"}
    /\ \E outcome \in {"ok", "err"} :
         LET e == IF pc[p] = "failed" THEN err[p]
                  ELSE IF outcome = "err" THEN "HttpError" ELSE "none"
         IN  hnd' = [hnd EXCEPT
                 ![p].pc = IF e = "none" \/ HandlerCatches(e)
                           THEN "returned" ELSE "raised",
                 ![p].status = IF e = "none" THEN 200
                               ELSE IF HandlerCatches(e) THEN 500 ELSE 0]
    /\ UNCHANGED <<now, issued, remote, file, credFile, psName, ctx, pc,
                   creds, raw, ops, err, callNo, prev, snap, env,
                   cz, rd>>

NextHandler ==
    \/ \E p \in MainProcs : HandlerEntry(p)
    \/ \E p \in MainProcs : LambdaLoadRemote(p)
    \/ \E p \in MainProcs : LambdaLoadFile(p)
    \/ \E p \in MainProcs : LambdaClassify(p)
    \/ \E p \in MainProcs : LambdaSaveFile(p)
    \/ \E p \in MainProcs : LambdaSaveRemote(p)
    \/ \E p \in MainProcs : Refresh(p)
    \/ \E p \in MainProcs : HandlerFinish(p)
    \/ ForeignWrite
    \/ Tick

SpecHandler == InitHandler /\ [][NextHandler]_vars

\* ---- two invocations sharing the remote parameter

\* Two containers, each with an empty /tmp, configured with the same
\* parameter name.
InitRace ==
    /\ Init
    /\ \A p \in Procs : ctx[p] = "lambda" /\ psName[p] /\ file[p] = Absent
    /\ remote \in HandlerContents

\* Each container serves one invocation.
RaceBegin(p) == callNo[p] = 0 /\ Begin(p)

NextRace ==
    \/ \E p \in Procs : RaceBegin(p)
    \/ \E p \in Procs : LambdaLoadRemote(p)
    \/ \E p \in Procs : LambdaLoadFile(p)
    \/ \E p \in Procs : LambdaClassify(p)
    \/ \E p \in Procs : Refresh(p)
    \/ \E p \in Procs : LambdaSaveFile(p)
    \/ \E p \in Procs : LambdaSaveRemote(p)
    \/ Tick

SpecRace == InitRace /\ [][NextRace]_vars

\* ---- the token file under a concurrent reader

MaxReads == 1       \* reads of the token file by the other process

\* The token file at the start holds nothing or a complete record.
InitFileRace ==
    /\ Init
    /\ \A p \in Procs : file[p] # Malformed

\* open(self.token_path, 'w'): the file is created or truncated in place,
\* or open() raises and the file is left alone.
SaveFileOpen(p) ==
    /\ pc[p] = "save_file"
    /\ \E outcome \in {"ok", "err"} :
          /\ file' = [file EXCEPT ![p] = IF outcome = "ok" THEN Malformed ELSE @]
          /\ Step(p, IF outcome = "ok" THEN "save_write" ELSE "failed",
                  creds[p], raw[p],
                  IF outcome = "ok" THEN <<>> ELSE <<"file_write_err">>,
                  IF outcome = "ok" THEN "none" ELSE "IOError")
    /\ UNCHANGED <<issued, remote>>

\* token.write(creds.to_json()) and the end of the with-block: the record
\* is in the file, or write() raises and the file stays truncated.
SaveFileWrite(p) ==
    /\ pc[p] = "save_write"
    /\ \E outcome \in {"ok", "partial"} :
          /\ file' = [file EXCEPT ![p] =
                         IF outcome = "ok" THEN ToJson(creds[p]) ELSE @]
          /\ Step(p, IF outcome # "ok" THEN "failed"
                     ELSE IF ctx[p] = "lambda" THEN AfterSaveFile(outcome)
                     ELSE "done",
                  creds[p], raw[p], <<"file_write_" \o outcome>>,
                  IF outcome = "ok" THEN "none" ELSE "IOError")
    /\ UNCHANGED <<issued, remote>>

\* Another process on the same host opens the token file of process 1 and
\* reads it (the load step of its own authenticate call).
ReadTokenFile ==
    /\ rd.n < MaxReads
    /\ \E p \in MainProcs : Running(p)
    /\ rd' = [n |-> rd.n + 1, seen |-> file[1]]
    /\ UNCHANGED <<now, issued, remote, file, credFile, psName, ctx, pc,
                   creds, raw, ops, err, callNo, prev, snap, env, hnd, cz>>

NextFileRace ==
    \/ \E p \in MainProcs : Begin(p)
    \/ \E p \in MainProcs : LambdaLoadRemote(p)
    \/ \E p \in MainProcs : LambdaLoadFile(p)
    \/ \E p \in MainProcs : LambdaClassify(p)
    \/ \E p \in MainProcs : LocalLoadFile(p)
    \/ \E p \in MainProcs : LocalClassify(p)
    \/ \E p \in MainProcs : Grant(p)
    \/ \E p \in MainProcs : Refresh(p)
    \/ \E p \in MainProcs : SaveFileOpen(p)
    \/ \E p \in MainProcs : SaveFileWrite(p)
    \/ \E p \in MainProcs : LambdaSaveRemote(p)
    \/ ReadTokenFile

SpecFileRace == InitFileRace /\ [][NextFileRace]_vars

\* ---- categorize_events (calendar_analysis_local.py, calendar_analysis.py)

\* Text is a sequence of one-character strings.

\* The `keywords` dictionary, in insertion order.
Keywords ==
    <<
       [category |-> "work",
        terms |-> <<<<"w", "o", "r", "k">>,
                    <<"p", "r", "o", "j", "e", "c", "t">>,
                    <<"d", "e", "a", "d", "l", "i", "n", "e">>,
                    <<"r", "e", "p", "o", "r", "t">>,
                    <<"t", "a", "s", "k">>,
                    <<"r", "e", "v", "i", "e", "w">>,
                    <<"c", "l", "i", "e", "n", "t">>>>],
       [category |-> "meeting",
        terms |-> <<<<"m", "e", "e", "t", "i", "n", "g">>,
                    <<"c", "a", "l", "l">>,
                    <<"c", "o", "n", "f", "e", "r", "e", "n", "c", "e">>,
                    <<"s", "y", "n", "c">>,
                    <<"d", "i", "s", "c", "u", "s", "s", "i", "o", "n">>,
                    <<"i", "n", "t", "e", "r", "v", "i", "e", "w">>,
                    <<"1", ":", "1">>,
                    <<"1", "o", "n", "1">>>>],
       [category |-> "travel",
        terms |-> <<<<"f", "l", "i", "g", "h", "t">>,
                    <<"t", "r", "a", "i", "n">>,
                    <<"t", "r", "i", "p">>,
                    <<"t", "r", "a", "v", "e", "l">>,
                    <<"c", "o", "m", "m", "u", "t", "e">>,
                    <<"d", "r", "i", "v", "e">>,
                    <<"a", "i", "r", "p", "o", "r", "t">>>>],
       [category |-> "social",
        terms |-> <<<<"d", "i", "n", "n", "e", "r">>,
                    <<"l", "u", "n", "c", "h">>,
                    <<"c", "o", "f", "f", "e", "e">>,
                    <<"d", "r", "i", "n", "k", "s">>,
                    <<"p", "a", "r", "t", "y">>,
                    <<"c", "e", "l", "e", "b", "r", "a", "t", "i", "o", "n">>,
                    <<"b", "i", "r", "t", "h", "d", "a", "y">>,
                    <<"w", "e", "d", "d", "i", "n", "g">>,
                    <<"r", "e", "s", "t", "a", "u", "r", "a", "n", "t">>>>],
       [category |-> "health",
        terms |-> <<<<"d", "o", "c", "t", "o", "r">>,
                    <<"d", "e", "n", "t", "i", "s", "t">>,
                    <<"g", "y", "m">>,
                    <<"w", "o", "r", "k", "o", "u", "t">>,
                    <<"e", "x", "e", "r", "c", "i", "s", "e">>,
                    <<"t", "h", "e", "r", "a", "p", "y">>,
                    <<"m", "e", "d", "i", "c", "a", "l">>,
                    <<"a", "p", "p", "o", "i", "n", "t", "m", "e", "n", "t">>>>]
    >>

\* str.lower(), character by character
LowerChar(c) ==
    CASE c = "A" -> "a"
      [] c = "B" -> "b"
      [] c = "C" -> "c"
      [] c = "D" -> "d"
      [] c = "E" -> "e"
      [] c = "F" -> "f"
      [] c = "G" -> "g"
      [] c = "H" -> "h"
      [] c = "I" -> "i"
      [] c = "J" -> "j"
      [] c = "K" -> "k"
      [] c = "L" -> "l"
      [] c = "M" -> "m"
      [] c = "N" -> "n"
      [] c = "O" -> "o"
      [] c = "P" -> "p"
      [] c = "Q" -> "q"
      [] c = "R" -> "r"
      [] c = "S" -> "s"
      [] c = "T" -> "t"
      [] c = "U" -> "u"
      [] c = "V" -> "v"
      [] c = "W" -> "w"
      [] c = "X" -> "x"
      [] c = "Y" -> "y"
      [] c = "Z" -> "z"
      [] OTHER -> c

Lower(text) == [i \in 1..Len(text) |-> LowerChar(text[i])]

\* `term in text`
Substring(term, text) ==
    \E i \in 0..(Len(text) - Len(term)) :
        SubSeq(text, i + 1, i + Len(term)) = term

\* An attendee of a formatted event without an e-mail address:
\* format_events stores a.get('email'), which is None.
NoEmail == <<"None">>

\* attendee.split('@')[0]
RECURSIVE LocalPart(_)
LocalPart(a) ==
    IF a = <<>> \/ Head(a) = "@" THEN <<>>
    ELSE <<Head(a)>> \o LocalPart(Tail(a))

\* f"{title} {desc} {location}" of the lowered fields
CombinedText(e) ==
    Lower(e.summary) \o <<" ">> \o Lower(e.description) \o <<" ">>
        \o Lower(e.location)

\* any(term in combined_text for term in terms)
AnyTerm(terms, text) ==
    \E k \in 1..Len(terms) : Substring(terms[k], text)

\* Variant: the inner loop without its `break`: the event is appended to
\* every category that has a matching keyword.
RECURSIVE KeywordLoopNoBreakFrom(_, _)
KeywordLoopNoBreakFrom(k, text) ==
    IF k > Len(Keywords) THEN <<>>
    ELSE (IF AnyTerm(Keywords[k].terms, text)
          THEN <<Keywords[k].category>> ELSE <<>>)
         \o KeywordLoopNoBreakFrom(k + 1, text)

KeywordLoopNoBreak(text) == KeywordLoopNoBreakFrom(1, text)

\* for category, terms in keywords.items(): the categories the event is
\* appended to; the loop breaks at the first category with a matching term.
RECURSIVE KeywordLoopFrom(_, _)
KeywordLoopFrom(k, text) ==
    IF k > Len(Keywords) THEN <<>>
    ELSE IF AnyTerm(Keywords[k].terms, text) THEN <<Keywords[k].category>>
    ELSE KeywordLoopFrom(k + 1, text)

KeywordLoop(text) == KeywordLoopFrom(1, text)

\* any(attendee.split('@')[0] in title.lower() for attendee in attendees):
\* evaluated attendee by attendee; None has no split and raises
\* AttributeError unless an earlier attendee already matched.
RECURSIVE AttendeeCheck(_, _)
AttendeeCheck(title, atts) ==
    IF atts = <<>> THEN "other"
    ELSE IF Head(atts) = NoEmail THEN "raise"
    ELSE IF Substring(LocalPart(Head(atts)), title) THEN "personal"
    ELSE AttendeeCheck(title, Tail(atts))

\* Formatted events handed to categorize_events.
InputEvents ==
    {
      [summary |-> <<"W", "o", "r", "k", "o", "u", "t">>, description |-> <<>>, location |-> <<>>,
       attendees |-> <<>>],
      [summary |-> <<"c", "a", "l", "l", " ", "b", "o", "b">>, description |-> <<>>, location |-> <<>>,
       attendees |-> <<<<"b", "o", "b", "@", "x">>>>],
      [summary |-> <<"b", "o", "b">>, description |-> <<>>, location |-> <<>>,
       attendees |-> <<<<"a", "m", "y", "@", "x">>, <<"b", "o", "b", "@", "x">>>>],
      [summary |-> <<"n", "a", "p">>, description |-> <<>>, location |-> <<>>,
       attendees |-> <<<<"b", "o", "b", "@", "x">>>>],
      [summary |-> <<"n", "a", "p">>, description |-> <<>>, location |-> <<"g", "y", "m">>,
       attendees |-> <<>>],
      [summary |-> <<"x">>, description |-> <<"t", "r", "i", "p", " ", "l", "u", "n", "c", "h">>, location |-> <<>>,
       attendees |-> <<>>],
      [summary |-> <<"R", "e", "v", "i", "e", "w">>, description |-> <<>>, location |-> <<"a", "i", "r", "p", "o", "r", "t">>,
       attendees |-> <<>>],
      [summary |-> <<"B", "o", "b">>, description |-> <<>>, location |-> <<>>,
       attendees |-> <<<<"B", "o", "b", "@", "x">>>>],
      [summary |-> <<"n", "a", "p">>, description |-> <<>>, location |-> <<>>,
       attendees |-> <<NoEmail, <<"n", "a", "p", "@", "x">>>>]
    }

MaxEvents == 3      \* length of the list handed to categorize_events

RECURSIVE EventLists(_)
EventLists(n) ==
    IF n = 0 THEN {<<>>}
    ELSE EventLists(n - 1)
         \cup {Append(l, e) : l \in {m \in EventLists(n - 1) : Len(m) = n - 1},
                              e \in InputEvents}

\* categorize_events is entered with a list of events.
InitCategorize ==
    /\ now = 0
    /\ issued = 1
    /\ remote = Absent
    /\ ctx = [p \in Procs |-> "local"]
    /\ file = [p \in Procs |-> Absent]
    /\ psName = [p \in Procs |-> FALSE]
    /\ credFile = [p \in Procs |-> FALSE]
    /\ pc = [p \in Procs |-> "idle"]
    /\ creds = [p \in Procs |-> NoCreds]
    /\ raw = [p \in Procs |-> Absent]
    /\ ops = [p \in Procs |-> <<>>]
    /\ err = [p \in Procs |-> "none"]
    /\ callNo = [p \in Procs |-> 0]
    /\ prev = [p \in Procs |-> PrevNone]
    /\ snap = [p \in Procs |-> [file |-> Absent, remote |-> Absent, t |-> -1, fw |-> FALSE]]
    /\ env = [p \in Procs |-> EnvNone]
    /\ hnd = [p \in Procs |-> HndIdle]
    /\ rd = RdIdle
    /\ \E l \in EventLists(MaxEvents) :
          cz = [pc |-> "loop", events |-> l, i |-> 1,
                cats |-> [c \in CategorySet |-> <<>>]]

\* One iteration of `for event in events`.
CategorizeEvent ==
    /\ cz.pc = "loop"
    /\ cz.i <= Len(cz.events)
    /\ LET event == cz.events[cz.i]
           title == Lower(event.summary)
           matched == KeywordLoop(CombinedText(event))
           rest == IF matched # <<>> THEN "matched"
                   ELSE AttendeeCheck(Lower(title), event.attendees)
           into == IF matched # <<>> THEN matched
                   ELSE IF rest = "raise" THEN <<>> ELSE <<rest>>
       IN  cz' = [cz EXCEPT
                    !.pc = IF rest = "raise" THEN "raised" ELSE "loop",
                    !.i = @ + 1,
                    !.cats = [c \in CategorySet |->
                                IF \E k \in 1..Len(into) : into[k] = c
                                THEN Append(cz.cats[c], event)
                                ELSE cz.cats[c]]]
    /\ UNCHANGED <<now, issued, remote, file, credFile, psName, ctx, pc,
                   creds, raw, ops, err, callNo, prev, snap, env, hnd, rd>>

\* return categories
CategorizeReturn ==
    /\ cz.pc = "loop"
    /\ cz.i > Len(cz.events)
    /\ cz' = [cz EXCEPT !.pc = "returned"]
    /\ UNCHANGED <<now, issued, remote, file, credFile, psName, ctx, pc,
                   creds, raw, ops, err, callNo, prev, snap, env, hnd, rd>>

NextCategorize == CategorizeEvent \/ CategorizeReturn

SpecCategorize == InitCategorize /\ [][NextCategorize]_vars

\* ------------------------------------------------- vocabulary of claims
RefreshOps == {"refresh_ok", "refresh_invalid_grant", "refresh_neterr"}
GrantOps == {"grant_ok", "grant_fail"}
RemoteGetOps == {"ps_get_ok", "ps_get_err"}
RemotePutOps == {"ps_put_ok", "ps_put_fail", "ps_put_conflict"}
FileWriteOps == {"file_write_ok", "file_write_err", "file_write_partial"}
TokenEndpointOps == RefreshOps \cup GrantOps
NetOps == TokenEndpointOps \cup RemoteGetOps \cup RemotePutOps
WriteOps == FileWriteOps \cup RemotePutOps

\* The call of p has evaluated creds.valid (it is past the load steps).
Classified(p) == snap[p].t >= 0

\* The credentials the call of p loaded, as it saw them when it classified.
Loaded(p) == FromAuthorizedUserInfo(raw[p])

Finished(p) == pc[p] \in {"done", "failed"}

\* The call of p has written no backend: no write was attempted, and the
\* stores hold what they held when the call began (the remote parameter
\* unless another invocation wrote it meanwhile).
NothingWritten(p) ==
    /\ Count(ops[p], WriteOps) = 0
    /\ file[p] = snap[p].file
    /\ ~snap[p].fw => remote = snap[p].remote

\* classify() of the specification (section 4.2), applied to a stored
\* record r at instant t.
SpecClass(r, t) ==
    CASE r.kind # "rec" -> "Absent"
      [] r.kind = "rec" /\ ~(SCOPES \subseteq r.sc) -> "ScopeMismatch"
      [] r.kind = "rec" /\ SCOPES \subseteq r.sc /\ t < r.exp -> "Valid"
      [] r.kind = "rec" /\ SCOPES \subseteq r.sc /\ t >= r.exp /\ r.rt # 0
            -> "Refreshable"
      [] OTHER -> "Terminal"

\* The code's own test for "a new grant is needed" on loaded credentials.
NeedsGrant(c, t) ==
    c.kind # "rec" \/ (~Valid(c, t) /\ ~(Expired(c, t) /\ c.rt # 0))

Next ==
    \/ \E p \in MainProcs : Begin(p)
    \/ \E p \in MainProcs : LambdaLoadRemote(p)
    \/ \E p \in MainProcs : LambdaLoadFile(p)
    \/ \E p \in MainProcs : LambdaClassify(p)
    \/ \E p \in MainProcs : LambdaSaveFile(p)
    \/ \E p \in MainProcs : LambdaSaveRemote(p)
    \/ \E p \in MainProcs : LocalLoadFile(p)
    \/ \E p \in MainProcs : LocalClassify(p)
    \/ \E p \in MainProcs : Grant(p)
    \/ \E p \in MainProcs : LocalSaveFile(p)
    \/ \E p \in MainProcs : Refresh(p)
    \/ ForeignWrite
    \/ Tick

Spec == Init /\ [][Next]_vars

\* One statement of the authenticate call of p: every call to the file
\* system, the remote store, the token endpoint and the consent step
\* returns or raises.
ProgramStep(p) ==
    \/ LambdaLoadRemote(p) \/ LambdaLoadFile(p) \/ LambdaClassify(p)
    \/ LambdaSaveFile(p) \/ LambdaSaveRemote(p)
    \/ LocalLoadFile(p) \/ LocalClassify(p) \/ Grant(p) \/ LocalSaveFile(p)
    \/ Refresh(p)

\* The stores at the start, limited to records that carry an access token
\* and the program's scopes.
InitLive ==
    /\ Init
    /\ remote \in HandlerContents
    /\ \A p \in Procs : file[p] \in HandlerContents

\* The program under the assumption that a call in progress is not
\* suspended forever.
SpecLive ==
    /\ InitLive /\ [][Next]_vars
    /\ \A p \in MainProcs : WF_vars(ProgramStep(p))
\* ------------------------------------------------------------------ claims

\* C1: in the serverless variant no execution of authenticate reaches the
\* interactive grant flow, whatever the stored records and the backend
\* configuration are.
C1_NoGrantInServerless ==
    \A p \in Procs :
        ctx[p] = "lambda" => pc[p] # "grant" /\ Count(ops[p], GrantOps) = 0

\* A serverless call that found an unusable record in the configured remote
\* parameter and has ended.
C1_Witness ==
    \E p \in Procs :
        /\ ctx[p] = "lambda" /\ psName[p]
        /\ pc[p] = "failed" /\ err[p] = "ValueError"
        /\ raw[p].kind = "rec" /\ ops[p] = <<"ps_get_ok">>

\* C2: with no remote record and no token file, a serverless call ends in
\* failure and writes neither the token file nor the remote parameter at any
\* point.
C2_EmptyStoreFails ==
    \A p \in Procs :
        (/\ ctx[p] = "lambda" /\ callNo[p] > 0
         /\ snap[p].file = Absent /\ snap[p].remote = Absent /\ ~snap[p].fw)
        => /\ NothingWritten(p)
           /\ pc[p] \in {"load_remote", "load_file", "classify", "failed"}
           /\ pc[p] = "failed" => err[p] = "ValueError"

\* A serverless call with a configured but nonexistent parameter and no
\* token file has ended.
C2_Witness ==
    \E p \in Procs :
        /\ ctx[p] = "lambda" /\ psName[p]
        /\ snap[p].file = Absent /\ snap[p].remote = Absent /\ ~snap[p].fw
        /\ pc[p] = "failed" /\ ops[p] = <<"ps_get_ok">>

\* C3: a loaded record with an access token, expiry in the future and stored
\* scopes that include the required ones is returned as loaded: the call
\* succeeds without refresh, grant or save and no backend is changed.
C3_ValidReturnedUnchanged ==
    \A p \in Procs :
        (/\ Classified(p)
         /\ raw[p].kind = "rec" /\ raw[p].tok # 0
         /\ raw[p].exp > snap[p].t
         /\ SCOPES \subseteq raw[p].sc)
        => /\ pc[p] = "done"
           /\ creds[p] = Loaded(p)
           /\ Count(ops[p], TokenEndpointOps) = 0
           /\ NothingWritten(p)

\* A local call returned the valid record it read from the token file.
C3_Witness ==
    \E p \in Procs :
        /\ pc[p] = "done" /\ Classified(p)
        /\ raw[p].kind = "rec" /\ raw[p].tok # 0 /\ raw[p].exp > snap[p].t
        /\ SCOPES \subseteq raw[p].sc
        /\ ctx[p] = "local" /\ ops[p] = <<"file_read">>

\* C4 as stated: the second of two calls in immediate succession on an
\* already valid stored record makes no network call at all, in every backend
\* configuration.
C4_Original ==
    \A p \in Procs :
        (/\ callNo[p] >= 2 /\ Finished(p)
         /\ prev[p].res = "done" /\ Count(prev[p].ops, TokenEndpointOps) = 0
         /\ Classified(p) /\ Valid(Loaded(p), snap[p].t))
        => Count(ops[p], NetOps) = 0

\* C4 amended: the second call succeeds without any call to the token
\* endpoint and without a write; it makes no network call when no remote
\* parameter is configured and exactly one, the get_parameter that loads the
\* record, when one is configured.
C4_SecondCallOnlyLoads ==
    \A p \in Procs :
        (/\ callNo[p] >= 2 /\ Finished(p)
         /\ prev[p].res = "done" /\ Count(prev[p].ops, TokenEndpointOps) = 0
         /\ Classified(p) /\ Valid(Loaded(p), snap[p].t))
        => /\ pc[p] = "done"
           /\ Count(ops[p], TokenEndpointOps) = 0
           /\ Count(ops[p], WriteOps) = 0
           /\ Count(ops[p], NetOps) = (IF psName[p] THEN 1 ELSE 0)
           /\ Count(ops[p], NetOps) = Count(ops[p], RemoteGetOps)

\* The second of two serverless calls returned the valid record it fetched
\* from the configured remote parameter.
C4_Witness ==
    \E p \in Procs :
        /\ callNo[p] = 2 /\ pc[p] = "done" /\ ctx[p] = "lambda" /\ psName[p]
        /\ prev[p].res = "done" /\ prev[p].ops = <<"ps_get_ok">>
        /\ ops[p] = <<"ps_get_ok">> /\ Valid(Loaded(p), snap[p].t)

\* C5 as stated: after a call that refreshed an expired record and persisted
\* the result, the very next call (made before the new record expires) finds
\* the record valid without any network call; the first call refreshed
\* exactly once.
C5_Original ==
    \A p \in Procs :
        (/\ callNo[p] >= 2 /\ Finished(p)
         /\ prev[p].res = "done" /\ Has(prev[p].ops, "refresh_ok")
         /\ prev[p].creds.exp > now)
        => /\ Count(prev[p].ops, RefreshOps) = 1
           /\ pc[p] = "done"
           /\ Count(ops[p], NetOps) = 0

\* C5 amended: a call that refreshes does so exactly once and writes the new
\* record to the token file (the remote write is attempted after it and its
\* failure ignored).  The next call loads that new record whenever no remote
\* parameter is configured, or the remote write succeeded and no other
\* invocation has written the parameter since; a next call that loads the
\* new record before it expires succeeds with it, makes no call to the token
\* endpoint, and its only network call is the get_parameter of a configured
\* remote parameter.
C5_RefreshOnceThenValid ==
    \A p \in Procs :
        (/\ callNo[p] >= 2 /\ Classified(p)
         /\ prev[p].res = "done" /\ Has(prev[p].ops, "refresh_ok"))
        => /\ Count(prev[p].ops, RefreshOps) = 1
           /\ Has(prev[p].ops, "file_write_ok")
           /\ (~psName[p] \/ (Has(prev[p].ops, "ps_put_ok") /\ ~snap[p].fw))
                  => raw[p] = ToJson(prev[p].creds)
           /\ (raw[p] = ToJson(prev[p].creds) /\ prev[p].creds.exp > snap[p].t
                /\ Finished(p))
                  => /\ pc[p] = "done"
                     /\ creds[p] = prev[p].creds
                     /\ Count(ops[p], TokenEndpointOps) = 0
                     /\ Count(ops[p], NetOps) = (IF psName[p] THEN 1 ELSE 0)

\* A local call refreshed an expired record, and the next call returned the
\* refreshed record from the token file without touching the network.
C5_Witness ==
    \E p \in Procs :
        /\ callNo[p] = 2 /\ pc[p] = "done" /\ ctx[p] = "local"
        /\ prev[p].res = "done"
        /\ prev[p].ops = <<"file_read", "refresh_ok", "file_write_ok">>
        /\ raw[p] = ToJson(prev[p].creds) /\ ops[p] = <<"file_read">>

\* C6: a loaded record whose expiry has passed and whose refresh token is
\* non-empty is taken down the refresh path: neither the grant flow nor a
\* failure comes before the refresh has been attempted.
C6_ExpiredWithRefreshTokenRefreshes ==
    \A p \in Procs :
        (/\ Classified(p)
         /\ raw[p].kind = "rec" /\ raw[p].exp <= snap[p].t /\ raw[p].rt # 0)
        => /\ pc[p] = "refresh" \/ Count(ops[p], RefreshOps) = 1
           /\ pc[p] # "grant" /\ Count(ops[p], GrantOps) = 0

\* The script variant refreshed an expired record that had a refresh token
\* but no access token.
C6_Witness ==
    \E p \in Procs :
        /\ ctx[p] = "script" /\ pc[p] = "done"
        /\ raw[p].kind = "rec" /\ raw[p].exp <= snap[p].t /\ raw[p].rt # 0
        /\ raw[p].tok = 0
        /\ ops[p] = <<"file_read", "refresh_ok", "file_write_ok">>

\* C7 as stated: a call never returns a stored token whose stored scopes were
\* not found to include the required scopes (a time-valid record with fewer
\* scopes is never used as it is).
C7_StoredScopesChecked ==
    \A p \in Procs :
        (pc[p] = "done" /\ Count(ops[p], TokenEndpointOps) = 0)
        => SCOPES \subseteq raw[p].sc

\* C8 as stated: in the interactive variants, when the provider rejects the
\* refresh token the procedure goes on to the interactive grant flow (the
\* client-secrets file being in place) instead of failing.
C8_InvalidGrantFallsThrough ==
    \A p \in Procs :
        (/\ ctx[p] # "lambda" /\ credFile[p]
         /\ Has(ops[p], "refresh_invalid_grant"))
        => pc[p] = "grant" \/ Count(ops[p], GrantOps) > 0

C10_UnusableRecordFails ==
    \A p \in Procs :
        (/\ ctx[p] = "lambda" /\ Classified(p)
         /\ raw[p].kind = "rec"
         /\ ~Valid(Loaded(p), snap[p].t)
         /\ ~(Expired(Loaded(p), snap[p].t) /\ raw[p].rt # 0))
        => /\ pc[p] = "failed" /\ err[p] = "ValueError"
           /\ Count(ops[p], TokenEndpointOps) = 0
           /\ NothingWritten(p)

\* A serverless call failed on an expired record without refresh token that
\* it read from the token file.
C10_Witness ==
    \E p \in Procs :
        /\ ctx[p] = "lambda" /\ pc[p] = "failed" /\ err[p] = "ValueError"
        /\ raw[p].kind = "rec" /\ raw[p].rt = 0 /\ raw[p].exp <= snap[p].t
        /\ ops[p] = <<"file_read">>
\* C11 as stated: an interactive call whose stored record classifies as
\* Absent, Terminal or ScopeMismatch succeeds only through the grant flow,
\* with the granted record saved to the token file and returned.
C11_GrantSavedAndReturned ==
    \A p \in Procs :
        (/\ ctx[p] # "lambda" /\ pc[p] = "done" /\ Classified(p)
         /\ SpecClass(raw[p], snap[p].t) \in {"Absent", "Terminal", "ScopeMismatch"})
        => /\ Has(ops[p], "grant_ok")
           /\ creds[p].tok # raw[p].tok
           /\ file[p] = ToJson(creds[p])

C13_MalformedFileNotFatal ==
    \A p \in Procs :
        (/\ ctx[p] # "lambda" /\ callNo[p] > 0
         /\ snap[p].file = Malformed /\ pc[p] = "failed")
        => Classified(p)

\* C14: when get_parameter fails, the serverless call goes on with the token
\* file: a valid record in it is returned, a refreshable one is refreshed,
\* and the call succeeds unless the refresh or the save itself fails.
C14_RemoteLoadFailureFallsBack ==
    \A p \in Procs :
        (/\ ctx[p] = "lambda" /\ psName[p] /\ Classified(p)
         /\ ops[p] # <<>> /\ ops[p][1] = "ps_get_err"
         /\ snap[p].file.kind = "rec")
        => /\ raw[p] = snap[p].file
           /\ Valid(Loaded(p), snap[p].t)
                 => pc[p] = "done" /\ creds[p] = Loaded(p)
           /\ (Expired(Loaded(p), snap[p].t) /\ raw[p].rt # 0)
                 => /\ pc[p] = "refresh" \/ Count(ops[p], RefreshOps) = 1
                    /\ (Has(ops[p], "refresh_ok") /\ Has(ops[p], "file_write_ok"))
                          => pc[p] \in {"save_remote", "done"}
                    /\ pc[p] = "failed"
                          => \/ Has(ops[p], "refresh_invalid_grant")
                             \/ Has(ops[p], "refresh_neterr")
                             \/ Has(ops[p], "file_write_err")
                             \/ Has(ops[p], "file_write_partial")

\* The parameter holds a record, get_parameter failed, and the call
\* succeeded by refreshing the record of the token file.
C14_Witness ==
    \E p \in Procs :
        /\ ctx[p] = "lambda" /\ psName[p] /\ pc[p] = "done"
        /\ snap[p].remote.kind = "rec" /\ raw[p] = snap[p].file
        /\ Has(ops[p], "ps_get_err") /\ Has(ops[p], "file_read")
        /\ Has(ops[p], "refresh_ok")

\* C15: in the interactive variants, when a grant is needed and the
\* client-secrets file is missing, the call fails with FileNotFoundError,
\* the grant flow is not started and nothing is written.
C15_MissingClientSecretsFails ==
    \A p \in Procs :
        (/\ ctx[p] # "lambda" /\ Classified(p) /\ ~credFile[p]
         /\ NeedsGrant(Loaded(p), snap[p].t))
        => /\ pc[p] = "failed" /\ err[p] = "FileNotFoundError"
           /\ Count(ops[p], GrantOps) = 0
           /\ NothingWritten(p)

\* A local call found an expired record without refresh token and no
\* client-secrets file.
C15_Witness ==
    \E p \in Procs :
        /\ ctx[p] = "local" /\ ~credFile[p] /\ pc[p] = "failed"
        /\ err[p] = "FileNotFoundError" /\ raw[p].kind = "rec"
        /\ ops[p] = <<"file_read">>
\* C16 as stated: whenever the handler has returned and
\* GOOGLE_CREDENTIALS_JSON is unset or empty, the status is 400 with the
\* message naming the missing credentials, no temporary file was written
\* and no authentication was attempted.
C16_Original ==
    \A p \in MainProcs :
        (hnd[p].pc = "returned" /\ env[p].creds \in {"unset", "empty"})
        => /\ hnd[p].status = 400
           /\ ~hnd[p].wroteCreds /\ ~hnd[p].wroteToken /\ ~hnd[p].auth

\* C16, amended: whenever the handler has returned and
\* GOOGLE_CREDENTIALS_JSON is unset or empty, no temporary file was written
\* and no authentication was attempted; the status is 400 with the message
\* naming the missing credentials when the request's days parameter parsed,
\* and 500 when it did not, because the parameter is parsed before the
\* credentials are looked at.
C16_MissingCredentialsRejected ==
    \A p \in MainProcs :
        (hnd[p].pc = "returned" /\ env[p].creds \in {"unset", "empty"})
        => /\ hnd[p].status = IF hnd[p].days = "ok" THEN 400 ELSE 500
           /\ ~hnd[p].wroteCreds /\ ~hnd[p].wroteToken /\ ~hnd[p].auth
           /\ ~credFile[p] /\ file[p] = Absent
           /\ callNo[p] = 0 /\ pc[p] = "idle" /\ ops[p] = <<>>

\* The handler has returned 400 for a well-formed request in a deployment
\* without credentials.
C16_Witness ==
    \E p \in MainProcs :
        /\ hnd[p].pc = "returned" /\ env[p].creds = "unset"
        /\ hnd[p].days = "ok" /\ hnd[p].status = 400

\* C17: with a remote parameter configured, a serverless call consults the
\* parameter store before it looks at the token file: the first I/O of the
\* call is the get_parameter.
C17_RemoteBeforeFile ==
    \A p \in Procs :
        (/\ ctx[p] = "lambda" /\ psName[p]
         /\ callNo[p] > 0 /\ pc[p] # "load_remote")
        => ops[p] # <<>> /\ ops[p][1] \in RemoteGetOps

\* The parameter did not parse and the call went on to read the token file.
C17_Witness ==
    \E p \in Procs :
        /\ ctx[p] = "lambda" /\ psName[p] /\ snap[p].remote = Malformed
        /\ Len(ops[p]) >= 2 /\ ops[p][1] = "ps_get_ok" /\ ops[p][2] = "file_read"

\* C18: after a serverless call that succeeded through a refresh and whose
\* remote write succeeded, the token file and the remote parameter hold the
\* same, new record.
C18_WriteThrough ==
    \A p \in Procs :
        (pc[p] = "done" /\ Has(ops[p], "ps_put_ok"))
        => /\ Has(ops[p], "refresh_ok") /\ Has(ops[p], "file_write_ok")
           /\ file[p] = remote
           /\ remote = ToJson(creds[p])
           /\ creds[p].tok # raw[p].tok

\* A serverless call refreshed the record of the parameter and wrote it to
\* the file and to the parameter.
C18_Witness ==
    \E p \in Procs :
        /\ pc[p] = "done"
        /\ ops[p] = <<"ps_get_ok", "refresh_ok", "file_write_ok", "ps_put_ok">>
        /\ file[p] = remote /\ remote # snap[p].remote

\* C19: nothing is written before a refresh or a grant has succeeded: a call
\* whose flow failed, or that has not completed a flow yet, has left every
\* backend as it found it.
C19_NoPartialState ==
    \A p \in Procs :
        callNo[p] > 0
        => /\ Count(ops[p], {"refresh_ok", "grant_ok"}) = 0 => NothingWritten(p)
           /\ Count(ops[p], {"refresh_invalid_grant", "refresh_neterr", "grant_fail"}) > 0
                 => pc[p] = "failed" /\ NothingWritten(p)

\* The refresh of a serverless call with a configured parameter failed.
C19_Witness ==
    \E p \in Procs :
        /\ ctx[p] = "lambda" /\ psName[p] /\ pc[p] = "failed"
        /\ ops[p] = <<"ps_get_ok", "refresh_neterr">>
        /\ file[p] = snap[p].file /\ remote = snap[p].remote

\* C20 as stated: when a call returns success after a refresh or a grant,
\* the designated store (the remote parameter when one is configured, the
\* token file otherwise) holds the record that was returned.
C20_Original ==
    \A p \in Procs :
        (pc[p] = "done" /\ Count(ops[p], {"refresh_ok", "grant_ok"}) > 0)
        => IF ctx[p] = "lambda" /\ psName[p]
           THEN remote = ToJson(creds[p])
           ELSE file[p] = ToJson(creds[p])

\* C20 amended: when a call returns success after a refresh or a grant, the
\* token file holds the record that was returned; a configured remote
\* parameter holds it exactly when the put_parameter succeeded.
C20_PersistedToFile ==
    \A p \in Procs :
        (pc[p] = "done" /\ Count(ops[p], {"refresh_ok", "grant_ok"}) > 0)
        => /\ file[p] = ToJson(creds[p])
           /\ (ctx[p] = "lambda" /\ psName[p])
                 => (remote = ToJson(creds[p]) <=> Has(ops[p], "ps_put_ok"))

\* A serverless call returned its refreshed record although the write to
\* the configured parameter failed.
C20_Witness ==
    \E p \in Procs :
        /\ pc[p] = "done" /\ psName[p]
        /\ ops[p] = <<"ps_get_ok", "refresh_ok", "file_write_ok", "ps_put_fail">>
        /\ file[p] = ToJson(creds[p]) /\ remote = snap[p].remote

\* C24: in the serverless variant the token file is read only when the
\* remote parameter gave no parsable record; when the parameter's record
\* parses but is expired and has no refresh token, the call fails with
\* nothing written, whatever the token file holds.
C24_RemoteShadowsFile ==
    \A p \in MainProcs :
        (ctx[p] = "lambda" /\ Finished(p) /\ ~snap[p].fw)
        => /\ Has(ops[p], "file_read")
                 => ~(Has(ops[p], "ps_get_ok") /\ snap[p].remote.kind = "rec")
           /\ ( /\ Has(ops[p], "ps_get_ok") /\ snap[p].remote.kind = "rec"
                /\ Expired(snap[p].remote, snap[p].t)
                /\ snap[p].remote.rt = 0 )
                 => /\ pc[p] = "failed" /\ err[p] = "ValueError"
                    /\ ops[p] = <<"ps_get_ok">>
                    /\ NothingWritten(p)

\* A serverless call failed on the parameter's expired record without a
\* refresh token while the token file held a valid record.
C24_Witness ==
    \E p \in MainProcs :
        /\ ctx[p] = "lambda" /\ pc[p] = "failed" /\ ~snap[p].fw
        /\ ops[p] = <<"ps_get_ok">>
        /\ snap[p].remote.kind = "rec" /\ snap[p].remote.rt = 0
        /\ Expired(snap[p].remote, snap[p].t)
        /\ file[p].kind = "rec" /\ SCOPES \subseteq file[p].sc
        /\ Valid(file[p], snap[p].t)

\* C26: in the serverless refresh path the token file is written before the
\* remote parameter. A failed remote save is swallowed: the call succeeds,
\* the file holds the new record and the parameter is left as it was (the
\* old expired record the credentials were loaded from, unless another
\* invocation wrote it meanwhile). When the file write fails, the remote
\* parameter is never written and the call fails although the refresh
\* succeeded.
C26_FileBeforeRemote ==
    \A p \in MainProcs :
        ctx[p] = "lambda"
        => /\ \A i \in 1..Len(ops[p]) :
                 ops[p][i] \in RemotePutOps
                 => \E j \in 1..(i - 1) : ops[p][j] = "file_write_ok"
           /\ (Has(ops[p], "ps_put_fail") \/ Has(ops[p], "ps_put_conflict"))
                 => /\ pc[p] = "done" /\ err[p] = "none"
                    /\ Has(ops[p], "refresh_ok")
                    /\ file[p] = ToJson(creds[p])
                    /\ remote # ToJson(creds[p])
                    /\ ~snap[p].fw => remote = snap[p].remote
                    /\ (~snap[p].fw /\ ~Has(ops[p], "file_read"))
                          => remote = raw[p] /\ Expired(remote, snap[p].t)
           /\ (Has(ops[p], "file_write_err") \/ Has(ops[p], "file_write_partial"))
                 => /\ pc[p] = "failed" /\ err[p] = "IOError"
                    /\ Has(ops[p], "refresh_ok")
                    /\ Count(ops[p], RemotePutOps) = 0
                    /\ ~snap[p].fw => remote = snap[p].remote

\* A refresh succeeded, the file write failed, and the call failed with
\* the configured remote parameter still holding the old expired record.
C26_Witness ==
    \E p \in MainProcs :
        /\ ctx[p] = "lambda" /\ psName[p] /\ pc[p] = "failed"
        /\ ops[p] = <<"ps_get_ok", "refresh_ok", "file_write_err">>
        /\ remote = raw[p] /\ Expired(remote, snap[p].t)

\* C25: whenever GOOGLE_TOKEN_JSON is set, every invocation of the handler
\* that authenticates starts from a token file holding the environment
\* token. Without a remote parameter the record an invocation loads is the
\* environment token, never the refreshed record the previous invocation
\* saved, and every invocation that finds the environment token expired
\* (with its refresh token) refreshes again.
C25_EnvTokenOverwritesFile ==
    \A p \in MainProcs :
        (hnd[p].auth /\ env[p].token # Absent)
        => /\ hnd[p].wroteToken
           /\ snap[p].file = env[p].token
           /\ (~psName[p] /\ env[p].token.kind = "rec" /\ Classified(p))
                 => /\ raw[p] = env[p].token
                    /\ (prev[p].res = "done" /\ Has(prev[p].ops, "refresh_ok"))
                          => raw[p] # ToJson(prev[p].creds)
           /\ ( /\ ~psName[p] /\ env[p].token.kind = "rec"
                /\ env[p].token.rt # 0 /\ Finished(p)
                /\ Expired(env[p].token, snap[p].t) )
                 => Count(ops[p], RefreshOps) = 1

\* The second invocation refreshed the expired environment token again
\* although the first had saved its refreshed, still valid record to the
\* token file.
C25_Witness ==
    \E p \in MainProcs :
        /\ ~psName[p] /\ hnd[p].auth /\ callNo[p] = 2
        /\ prev[p].res = "done"
        /\ prev[p].ops = <<"file_read", "refresh_ok", "file_write_ok">>
        /\ Valid(prev[p].creds, snap[p].t)
        /\ pc[p] = "done"
        /\ ops[p] = <<"file_read", "refresh_ok", "file_write_ok">>

\* C27: the handler never lets an exception reach its caller: whatever the
\* event, the environment and the failures of parsing, decoding,
\* authentication, retrieval and analysis, it returns a response with
\* status 200, 400 or 500; the status is 200 only after an authentication
\* that succeeded, and 500 after one that failed.
C27_HandlerNeverRaises ==
    \A p \in MainProcs :
        /\ hnd[p].pc # "raised"
        /\ hnd[p].pc = "returned"
              => /\ hnd[p].status \in {200, 400, 500}
                 /\ hnd[p].status = 200
                       => hnd[p].auth /\ pc[p] = "done" /\ err[p] = "none"
                 /\ (hnd[p].auth /\ pc[p] = "failed") => hnd[p].status = 500

\* The handler returned 500 after the provider had rejected the refresh
\* token during authentication.
C27_Witness ==
    \E p \in MainProcs :
        /\ hnd[p].pc = "returned" /\ hnd[p].status = 500 /\ hnd[p].auth
        /\ pc[p] = "failed" /\ err[p] = "RefreshError"
        /\ Has(ops[p], "refresh_invalid_grant")

\* The category the description of categorize_events gives an event: the
\* first of work, meeting, travel, social, health with a keyword occurring
\* in the event's text, otherwise personal when the local part of an
\* attendee's address occurs in the title, otherwise other.
C28_CategoryOf(e) ==
    LET text == CombinedText(e)
        order == <<"work", "meeting", "travel", "social", "health">>
        terms(c) == (CHOOSE k \in 1..Len(Keywords) :
                        Keywords[k].category = c)
        hit(c) == AnyTerm(Keywords[terms(c)].terms, text)
    IN  IF \E n \in 1..5 : hit(order[n])
        THEN order[CHOOSE n \in 1..5 :
                     hit(order[n]) /\ \A m \in 1..(n - 1) : ~hit(order[m])]
        ELSE IF \E k \in 1..Len(e.attendees) :
                   Substring(LocalPart(e.attendees[k]), Lower(e.summary))
        THEN "personal" ELSE "other"

C28_InCategory(c, l) ==
    LET Test(e) == C28_CategoryOf(e) = c IN SelectSeq(l, Test)

\* C28: when categorize_events returns, each category list is the
\* subsequence of the input made of the events of that category, in input
\* order, so every input event is in exactly one list and the sizes of the
\* seven lists sum to the number of input events.
C28_Partition ==
    cz.pc = "returned"
    => /\ \A c \in CategorySet : cz.cats[c] = C28_InCategory(c, cz.events)
       /\ Len(cz.cats["work"]) + Len(cz.cats["meeting"])
          + Len(cz.cats["personal"]) + Len(cz.cats["travel"])
          + Len(cz.cats["social"]) + Len(cz.cats["health"])
          + Len(cz.cats["other"]) = Len(cz.events)

\* Three events were categorized, one of them with keywords of two
\* categories, two of them into the same list.
C28_Witness ==
    /\ cz.pc = "returned" /\ Len(cz.events) = 3
    /\ Len(cz.cats["work"]) = 2
    /\ cz.cats["work"][1] # cz.cats["work"][2]
    /\ KeywordLoopNoBreak(CombinedText(cz.cats["work"][1])) = <<"work", "health">>
    /\ Len(cz.cats["personal"]) = 1

\* C23: every authenticate call that has begun eventually ends, returning
\* credentials or raising, provided each of its calls to the file system,
\* the remote store, the token endpoint and the consent step returns or
\* fails; no statement of the procedure is executed twice in one call.
C23_Terminates ==
    \A p \in MainProcs : Running(p) ~> Finished(p)

\* A call ended after it had gone through a load, a refresh and a save.
C23_Witness ==
    \E p \in MainProcs :
        /\ Finished(p)
        /\ Has(ops[p], "file_read") /\ Has(ops[p], "refresh_ok")
        /\ Has(ops[p], "file_write_ok")

\* C22 as stated: a process that reads the token file while an authenticate
\* call is saving to it sees the complete old record (or no file) or the
\* complete new record, never an empty or truncated file, as long as no
\* write fails.
C22_ReaderNeverSeesPartial ==
    (rd.n > 0 /\ \A p \in MainProcs : ~Has(ops[p], "file_write_partial"))
    => rd.seen # Malformed

\* C21: when two invocations sharing the remote parameter have each run
\* load, refresh and save, in whatever interleaving, both have succeeded;
\* and when a put_parameter went through, the parameter holds the complete
\* record of one of the invocations whose put went through, still valid.
C21_LastWriterWins ==
    ( /\ \A p \in Procs : Finished(p)
      /\ \A p \in Procs : Has(ops[p], "refresh_ok")
      /\ \A p \in Procs : Count(ops[p], {"file_write_err", "file_write_partial"}) = 0 )
    => /\ \A p \in Procs : pc[p] = "done" /\ file[p] = ToJson(creds[p])
       /\ (\E p \in Procs : Has(ops[p], "ps_put_ok"))
             => \E p \in Procs :
                   /\ Has(ops[p], "ps_put_ok")
                   /\ remote = ToJson(creds[p])
                   /\ remote.kind = "rec" /\ Valid(remote, now)

\* Both invocations loaded the same expired record, both refreshed it and
\* both wrote the parameter; the one that refreshed first wrote last, and
\* its record is the one the parameter holds.
C21_Witness ==
    /\ \A p \in Procs :
          /\ pc[p] = "done"
          /\ ops[p] = <<"ps_get_ok", "refresh_ok", "file_write_ok", "ps_put_ok">>
    /\ raw[1] = raw[2]
    /\ creds[1].tok > creds[2].tok
    /\ remote = ToJson(creds[2])
====
